---- MODULE Spec2Model ----
(***************************************************************************)
(* A model of src/fyu_chan.py, the Fyu-chan Streamlit chatbot: the prompt  *)
(* composition (lines 136-141), the session store (lines 163-176), the     *)
(* generate-then-reflect turn (lines 178-218) and the script that Streamlit*)
(* runs top to bottom for every user interaction (lines 221-247).          *)
(*                                                                         *)
(* Python str values are TLA+ strings; str.replace, str.strip and          *)
(* json.loads are computed character by character.                         *)
(***************************************************************************)
EXTENDS Integers, Sequences, FiniteSets, TLC

VARIABLES
    readings,              \* `from readings import readings` (line 8)
    session_state,         \* st.session_state: survives the script's re-runs
    pc,                    \* where the current script run stands
    custom_prompt,         \* the sidebar text area's value (line 136)
    current_date,          \* line 16
    custom_prompt_block,   \* line 137
    filled_system_prompt,  \* line 141
    chat_histories,        \* line 164
    user_input,            \* line 230
    enable_reflection,     \* parameter of chat_with_fyu (line 200)
    bot_reply,             \* line 207
    reflection,            \* line 211: the reflection call's raw output
    final_response,        \* line 208/214/216: what chat_with_fyu returns
    error,                 \* the exception that left chat_with_fyu, if any
    llm_calls              \* completion-service calls issued in this turn

vars == <<readings, session_state, pc, custom_prompt, current_date,
          custom_prompt_block, filled_system_prompt, chat_histories,
          user_input, enable_reflection, bot_reply, reflection,
          final_response, error, llm_calls>>

(***************************************************************************)
(* Bounds of the model.                                                    *)
(***************************************************************************)
\* Script runs with a user input (turns) that one browser session makes.
MaxTurns == 1

(***************************************************************************)
(* Python str operations.                                                  *)
(***************************************************************************)
\* s[i-1] in Python, "" past the end.
CharAt(s, i) == IF i >= 1 /\ i <= Len(s) THEN SubSeq(s, i, i) ELSE ""

\* s[i-1:] in Python.
Suffix(s, i) == IF i > Len(s) THEN "" ELSE SubSeq(s, i, Len(s))

\* s.startswith(t, i-1)
StartsWithAt(s, t, i) ==
    /\ i + Len(t) - 1 <= Len(s)
    /\ SubSeq(s, i, i + Len(t) - 1) = t

\* t in s
Contains(s, t) == \E i \in 1..Len(s) : StartsWithAt(s, t, i)

\* Characters str.strip() removes (those of the model's alphabet).
Whitespace == {" ", "\n", "\t", "\r"}

RECURSIVE LStrip(_)
LStrip(s) ==
    IF s # "" /\ CharAt(s, 1) \in Whitespace THEN LStrip(Suffix(s, 2)) ELSE s

RECURSIVE RStrip(_)
RStrip(s) ==
    IF s # "" /\ CharAt(s, Len(s)) \in Whitespace
    THEN RStrip(SubSeq(s, 1, Len(s) - 1))
    ELSE s

\* str.strip()
Strip(s) == RStrip(LStrip(s))

\* s.find(t) + 1: the index of the first occurrence of t in s, 0 for none.
Find(s, t) ==
    LET hits == {i \in 1..Len(s) : StartsWithAt(s, t, i)}
    IN  IF hits = {} THEN 0 ELSE CHOOSE i \in hits : \A j \in hits : i <= j

\* str.replace(old, new) for a non-empty old: every non-overlapping
\* occurrence, leftmost first; the inserted text is not scanned again.
RECURSIVE Replace(_, _, _)
Replace(s, old, new) ==
    LET at == Find(s, old)
    IN  IF at = 0 THEN s
        ELSE SubSeq(s, 1, at - 1) \o new
             \o Replace(Suffix(s, at + Len(old)), old, new)

(***************************************************************************)
(* The prompt composer (lines 19-86 and 136-141).                          *)
(***************************************************************************)
\* The default persona template.  Sections 1 to 6 of the source text (lines
\* 23-85), which hold no brace, are cut to their first and last headings.
fyu_chan_system_prompt ==
    "\n    context:\n    payload: \"{readings} for {current_date}\"\n\n"
    \o "    # ===== 1. Fyu-chan System Prompt =====\n"
    \o "    # ===== 6. Custom User Instructions (Overrides) =====\n"
    \o "    {custom_prompt_block}"

\* line 137
StripCustomPrompt(cp) == Strip(cp)

\* EffectiveSystemPrompt with a fault: the default template whatever the
\* override, which then lands in the template's override slot.
EffectiveSystemPrompt_Merge(cpb) == fyu_chan_system_prompt

\* line 140
EffectiveSystemPrompt(cpb) ==
    IF cpb # "" THEN cpb ELSE fyu_chan_system_prompt

\* FillSystemPrompt with a fault: the date placeholder is forgotten.
FillSystemPrompt_NoDate(eff, rd, cd, cpb) ==
    Replace(Replace(eff, "{readings}", rd), "{custom_prompt_block}", cpb)

\* line 141
FillSystemPrompt(eff, rd, cd, cpb) ==
    Replace(Replace(Replace(eff, "{readings}", rd),
                    "{current_date}", cd),
            "{custom_prompt_block}", cpb)

(***************************************************************************)
(* Python values: what json.loads returns and what chat_with_fyu returns.  *)
(* One record shape for all of them: type, s (the text of a str, the       *)
(* digits of an int) and items (a list's elements, a dict's key/value      *)
(* pairs in source order).                                                 *)
(***************************************************************************)
PyStr(x) == [type |-> "str", s |-> x, items |-> <<>>]
PyInt(digits) == [type |-> "int", s |-> digits, items |-> <<>>]
PyFloat(x) == [type |-> "float", s |-> x, items |-> <<>>]
PyBool(x) == [type |-> "bool", s |-> x, items |-> <<>>]
PyNone == [type |-> "NoneType", s |-> "", items |-> <<>>]
PyList(elems) == [type |-> "list", s |-> "", items |-> elems]
PyDict(pairs) == [type |-> "dict", s |-> "", items |-> pairs]

\* dict.get(key, default) on the pairs json.loads collected: the last pair
\* with the key wins, and a key that is present with the value None gives
\* None, not the default.
DictGet(d, key, default) ==
    LET hits == {i \in 1..Len(d.items) : d.items[i].key = key}
    IN  IF hits = {} THEN default
        ELSE d.items[CHOOSE i \in hits : \A j \in hits : j <= i].val

(***************************************************************************)
(* json.loads (line 213), for JSON texts without \u escapes, fractions and *)
(* exponents.  Every parser returns [ok, val, pos]: pos is the index of    *)
(* the first character it has not read; ok = FALSE is JSONDecodeError.     *)
(***************************************************************************)
JsonFail == [ok |-> FALSE, val |-> PyNone, pos |-> 0]

JsonOk(v, p) == [ok |-> TRUE, val |-> v, pos |-> p]

Digits == {"0", "1", "2", "3", "4", "5", "6", "7", "8", "9"}

\* The JSON whitespace json.decoder skips.
JsonWhitespace == {" ", "\n", "\t", "\r"}

RECURSIVE SkipWs(_, _)
SkipWs(s, i) ==
    IF CharAt(s, i) \in JsonWhitespace THEN SkipWs(s, i + 1) ELSE i

\* The character an escape \c stands for, "" when \c is no escape.
Unescape(c) ==
    CASE c = "\"" -> "\""
      [] c = "\\" -> "\\"
      [] c = "/" -> "/"
      [] c = "n" -> "\n"
      [] c = "t" -> "\t"
      [] c = "r" -> "\r"
      [] OTHER -> ""

\* The body of a string literal from index i, acc the text decoded so far.
RECURSIVE ScanString(_, _, _)
ScanString(s, i, acc) ==
    LET c == CharAt(s, i)
    IN  IF c = "" THEN JsonFail
        ELSE IF c = "\"" THEN JsonOk(PyStr(acc), i + 1)
        ELSE IF c \in {"\n", "\t", "\r"} THEN JsonFail
        ELSE IF c = "\\"
             THEN IF Unescape(CharAt(s, i + 1)) = "" THEN JsonFail
                  ELSE ScanString(s, i + 2, acc \o Unescape(CharAt(s, i + 1)))
        ELSE ScanString(s, i + 1, acc \o c)

RECURSIVE ScanDigits(_, _)
ScanDigits(s, i) == IF CharAt(s, i) \in Digits THEN ScanDigits(s, i + 1) ELSE i

\* -?(0|[1-9][0-9]*)
ParseNumber(s, i) ==
    LET j == IF CharAt(s, i) = "-" THEN i + 1 ELSE i
        e == IF CharAt(s, j) = "0" THEN j + 1 ELSE ScanDigits(s, j)
    IN  IF CharAt(s, j) \in Digits
        THEN JsonOk(PyInt(SubSeq(s, i, e - 1)), e)
        ELSE JsonFail

RECURSIVE ParseValue(_, _)
RECURSIVE ParseMembers(_, _, _)
RECURSIVE ParseElements(_, _, _)

\* One JSON value starting at the non-whitespace index i.
ParseValue(s, i) ==
    LET c == CharAt(s, i)
    IN  IF c = "\"" THEN ScanString(s, i + 1, "")
        ELSE IF c = "{"
             THEN IF CharAt(s, SkipWs(s, i + 1)) = "}"
                  THEN JsonOk(PyDict(<<>>), SkipWs(s, i + 1) + 1)
                  ELSE ParseMembers(s, SkipWs(s, i + 1), <<>>)
        ELSE IF c = "["
             THEN IF CharAt(s, SkipWs(s, i + 1)) = "]"
                  THEN JsonOk(PyList(<<>>), SkipWs(s, i + 1) + 1)
                  ELSE ParseElements(s, SkipWs(s, i + 1), <<>>)
        ELSE IF StartsWithAt(s, "null", i) THEN JsonOk(PyNone, i + 4)
        ELSE IF StartsWithAt(s, "true", i) THEN JsonOk(PyBool("True"), i + 4)
        ELSE IF StartsWithAt(s, "false", i) THEN JsonOk(PyBool("False"), i + 5)
        ELSE IF StartsWithAt(s, "NaN", i) THEN JsonOk(PyFloat("nan"), i + 3)
        ELSE IF StartsWithAt(s, "Infinity", i) THEN JsonOk(PyFloat("inf"), i + 8)
        ELSE IF StartsWithAt(s, "-Infinity", i) THEN JsonOk(PyFloat("-inf"), i + 9)
        ELSE ParseNumber(s, i)

\* The members of an object from the key at index i on, acc the pairs so far.
ParseMembers(s, i, acc) ==
    IF CharAt(s, i) # "\"" THEN JsonFail
    ELSE
      LET k == ScanString(s, i + 1, "")
          colon == SkipWs(s, k.pos)
          v == ParseValue(s, SkipWs(s, colon + 1))
          e == SkipWs(s, v.pos)
          pairs == Append(acc, [key |-> k.val.s, val |-> v.val])
      IN  IF ~k.ok THEN JsonFail
          ELSE IF CharAt(s, colon) # ":" THEN JsonFail
          ELSE IF ~v.ok THEN JsonFail
          ELSE IF CharAt(s, e) = "}" THEN JsonOk(PyDict(pairs), e + 1)
          ELSE IF CharAt(s, e) = "," THEN ParseMembers(s, SkipWs(s, e + 1), pairs)
          ELSE JsonFail

\* The elements of an array from the value at index i on.
ParseElements(s, i, acc) ==
    LET v == ParseValue(s, i)
        e == SkipWs(s, v.pos)
        elems == Append(acc, v.val)
    IN  IF ~v.ok THEN JsonFail
        ELSE IF CharAt(s, e) = "]" THEN JsonOk(PyList(elems), e + 1)
        ELSE IF CharAt(s, e) = "," THEN ParseElements(s, SkipWs(s, e + 1), elems)
        ELSE JsonFail

\* json.loads(s): one value, whitespace around it, nothing after it.
JsonLoads(s) ==
    LET v == ParseValue(s, SkipWs(s, 1))
    IN  IF v.ok /\ SkipWs(s, v.pos) > Len(s) THEN v ELSE JsonFail

(***************************************************************************)
(* The session store (lines 163-176).                                      *)
(***************************************************************************)
HumanMessage(c) == [role |-> "human", content |-> c]

AIMessage(c) == [role |-> "ai", content |-> c]

\* line 164: chat_histories = {}
EmptyStore == [id \in {} |-> <<>>]

\* lines 166-169, as the store it leaves; the history it returns is
\* store[sid] of that store.
get_session_history(store, sid) ==
    IF sid \in DOMAIN store THEN store
    ELSE [id \in DOMAIN store \cup {sid} |->
             IF id \in DOMAIN store THEN store[id] ELSE <<>>]

\* The messages of a session, none for an identifier the store does not hold.
Messages(store, sid) == IF sid \in DOMAIN store THEN store[sid] ELSE <<>>

\* OnInvokeError with a fault: the user message is saved although the call
\* failed.
OnInvokeError_SavesInput(hist, input) == Append(hist, HumanMessage(input))

\* chain_with_history.invoke raising (lines 171-176): the wrapper saves
\* messages only when the wrapped runnable ends without an error.
OnInvokeError(hist, input) == hist

\* OnInvokeEnd with a fault: only the reply is saved.
OnInvokeEnd_ReplyOnly(hist, input, reply) == Append(hist, AIMessage(reply))

\* chain_with_history.invoke returning (lines 171-176): the wrapper appends
\* the input message and the reply to the session's history.
OnInvokeEnd(hist, input, reply) ==
    hist \o <<HumanMessage(input), AIMessage(reply)>>

(***************************************************************************)
(* chat_with_fyu after the reflection call has returned (lines 211-218).   *)
(***************************************************************************)
\* A local that has no value (yet).
Unset == [type |-> "unset", s |-> "", items |-> <<>>]

\* The marker of line 216; its emoji U+1F9E0 is written (brain) here.
UnparsedMarker == "\n\n(brain) Reflection (unparsed):\n"

\* UnparsedFallback with a fault: the raw text is dropped.
UnparsedFallback_NoRaw(reply, raw) == reply \o UnparsedMarker

\* line 216
UnparsedFallback(reply, raw) == reply \o UnparsedMarker \o raw

\* ParsedFinal with a fault: the candidate is kept whatever the verdict says.
ParsedFinal_KeepsCandidate(data, reply) == PyStr(reply)

\* line 214, for reflection_data a dict
ParsedFinal(data, reply) == DictGet(data, "final_response", PyStr(reply))

\* lines 212-218: [raised, value, error].  Only json.JSONDecodeError is
\* caught; reflection_data.get on a value that is no dict raises
\* AttributeError, which leaves chat_with_fyu.
ReflectionResult(reply, raw) ==
    LET parsed == JsonLoads(raw)
    IN  IF ~parsed.ok
        THEN [raised |-> FALSE, value |-> PyStr(UnparsedFallback(reply, raw)),
              error |-> ""]
        ELSE IF parsed.val.type = "dict"
        THEN [raised |-> FALSE, value |-> ParsedFinal(parsed.val, reply),
              error |-> ""]
        ELSE [raised |-> TRUE, value |-> Unset, error |-> "AttributeError"]

(***************************************************************************)
(* Inputs.                                                                 *)
(***************************************************************************)
\* uuid.uuid4() results (line 223).
SessionIds == {"uuid-a", "uuid-b"}

\* date.today().isoformat() results (line 16).
Dates == {"2026-11-02", "2026-11-03"}

\* The readings payload of the chat runs.  It has no brace, and neither has
\* a filled prompt of the chat runs: line 144 reads filled_system_prompt as
\* a template, in which a brace would open a variable of its own.
ChatReadings == {"Day 7: steady progress"}

\* The sidebar text of the chat runs.
ChatCustomPrompts == {"", "  Be brief. Use {readings}.\n"}

UserInputs == {"hello", "luck?"}

\* Replies of the first completion call.
Replies == {"hi", "X"}

\* The text of a verdict as the reflection prompt asks for it (lines 121-132).
VerdictText(score, final) ==
    "{\"adherence_score\": " \o score \o ", \"issues\": [], \"final_response\": \""
    \o final \o "\"}"

\* Raw outputs of the reflection call.
ReflectionOutputs ==
    { "not json",
      "",
      "Verdict:\n" \o VerdictText("95", "X"),
      VerdictText("95", "X"),
      VerdictText("40", "hi"),
      " " \o VerdictText("95", "hi") \o "\n",
      "{\"adherence_score\": 95, \"issues\": []}",
      "{\"final_response\": null}",
      "{\"final_response\": 7}",
      "[]",
      "null",
      "\"X\"" }

\* The readings payloads and sidebar texts of the composer runs.
ComposerReadings ==
    { "Day 7: steady progress",
      "{\"day\": 7}",
      "see {readings}",
      "on {current_date}",
      "{custom_prompt_block}",
      "ding" }

ComposerCustomPrompts ==
    { "",
      " \n\t",
      "Be brief.",
      "  Use {readings} on {current_date}.  ",
      "{readings}{readings}",
      "Rules: {custom_prompt_block}",
      "{current_date}: {readings} {custom_prompt_block}",
      "{rea{readings}s}",
      "a } b { c",
      "# ===== 1. Fyu-chan System Prompt =====" }

(***************************************************************************)
(* The script (lines 14-247).  Streamlit executes it from the top for      *)
(* every interaction of a browser session, in a namespace of that run;     *)
(* only st.session_state is carried from one run to the next.              *)
(***************************************************************************)
UserTurns(history) ==
    Cardinality({i \in 1..Len(history) : history[i].role = "user"})

\* Lines 16 and 134-176: the module-level statements up to the session
\* store, with sidebar text cp and today's date cd.
ScriptTop(cp, cd) ==
    LET cpb == StripCustomPrompt(cp)
    IN  /\ current_date' = cd
        /\ custom_prompt' = cp
        /\ custom_prompt_block' = cpb
        /\ filled_system_prompt' =
               FillSystemPrompt(EffectiveSystemPrompt(cpb), readings, cd, cpb)
        /\ UNCHANGED readings

\* No call of chat_with_fyu is in progress: its locals have no value.
NoCall ==
    /\ enable_reflection' = FALSE
    /\ bot_reply' = ""
    /\ reflection' = ""
    /\ final_response' = Unset
    /\ error' = ""
    /\ llm_calls' = 0

\* lines 222-225
InitSessionState(sid) ==
    IF session_state.session_id = ""
    THEN [session_id |-> sid, chat_history |-> <<>>]
    ELSE session_state

\* What line 223 can draw: uuid.uuid4() is called only when the session has
\* no identifier yet.
NewSessionIds ==
    IF session_state.session_id = "" THEN SessionIds
    ELSE {session_state.session_id}

\* A run without chat input (the page is opened, the sidebar is edited):
\* the whole script, line 238 finding no input.
RunScript(cp, cd, sid) ==
    /\ pc \in {"idle", "raised"}
    /\ ScriptTop(cp, cd)
    /\ chat_histories' = EmptyStore
    /\ session_state' = InitSessionState(sid)
    /\ user_input' = ""
    /\ NoCall
    /\ pc' = "idle"

Rerun ==
    \E cp \in ChatCustomPrompts, cd \in Dates, sid \in NewSessionIds :
        RunScript(cp, cd, sid)

\* A run with chat input u: the script down to line 243 and chat_with_fyu
\* down to the first completion call (line 203), which is then in flight.
\* chain_with_history.invoke fetches the session's history first.
Submit ==
    \E cp \in ChatCustomPrompts, cd \in Dates, sid \in NewSessionIds,
       u \in UserInputs, refl \in BOOLEAN :
        /\ pc \in {"idle", "raised"}
        /\ UserTurns(session_state.chat_history) < MaxTurns
        /\ ScriptTop(cp, cd)
        /\ session_state' =
               [InitSessionState(sid) EXCEPT
                   !.chat_history =
                       Append(@, [role |-> "user", content |-> PyStr(u)])]
        /\ chat_histories' =
               get_session_history(EmptyStore, InitSessionState(sid).session_id)
        /\ user_input' = u
        /\ enable_reflection' = refl
        /\ bot_reply' = ""
        /\ reflection' = ""
        /\ final_response' = Unset
        /\ error' = ""
        /\ llm_calls' = 1
        /\ pc' = "invoke"

\* AfterFirstCall with a fault: reflection runs whatever the flag says.
AfterFirstCall_AlwaysReflects(refl, calls) ==
    [pc |-> "reflect", llm_calls |-> calls + 1]

\* lines 207-211 and 218: with reflection enabled reflect_on_response
\* issues the second completion call (line 196); without it chat_with_fyu
\* returns.
AfterFirstCall(refl, calls) ==
    IF refl
    THEN [pc |-> "reflect", llm_calls |-> calls + 1]
    ELSE [pc |-> "returned", llm_calls |-> calls]

\* The first completion call returns reply (lines 203-211): the wrapper
\* saves the turn, bot_reply and final_response are set (lines 207-208).
FirstCallReturns ==
    \E reply \in Replies :
        /\ pc = "invoke"
        /\ chat_histories' =
               [chat_histories EXCEPT
                   ![session_state.session_id] =
                       OnInvokeEnd(@, user_input, reply)]
        /\ bot_reply' = reply
        /\ final_response' = PyStr(reply)
        /\ llm_calls' = AfterFirstCall(enable_reflection, llm_calls).llm_calls
        /\ pc' = AfterFirstCall(enable_reflection, llm_calls).pc
        /\ UNCHANGED <<readings, session_state, custom_prompt, current_date,
                       custom_prompt_block, filled_system_prompt, user_input,
                       enable_reflection, reflection, error>>

\* The first completion call fails: the exception leaves chat_with_fyu and
\* ends the script run.
FirstCallFails ==
    /\ pc = "invoke"
    /\ chat_histories' =
           [chat_histories EXCEPT
               ![session_state.session_id] = OnInvokeError(@, user_input)]
    /\ error' = "CompletionError"
    /\ pc' = "raised"
    /\ UNCHANGED <<readings, session_state, custom_prompt, current_date,
                   custom_prompt_block, filled_system_prompt, user_input,
                   enable_reflection, bot_reply, reflection, final_response,
                   llm_calls>>

\* The reflection call returns raw (lines 196-197 and 211-218).
ReflectionReturns ==
    \E raw \in ReflectionOutputs :
        /\ pc = "reflect"
        /\ reflection' = raw
        /\ final_response' = ReflectionResult(bot_reply, raw).value
        /\ error' = ReflectionResult(bot_reply, raw).error
        /\ pc' = IF ReflectionResult(bot_reply, raw).raised
                 THEN "raised" ELSE "returned"
        /\ UNCHANGED <<readings, session_state, custom_prompt, current_date,
                       custom_prompt_block, filled_system_prompt,
                       chat_histories, user_input, enable_reflection,
                       bot_reply, llm_calls>>

\* The reflection call fails (line 196): nothing catches the exception.
ReflectionFails ==
    /\ pc = "reflect"
    /\ error' = "ReflectionError"
    /\ final_response' = Unset
    /\ pc' = "raised"
    /\ UNCHANGED <<readings, session_state, custom_prompt, current_date,
                   custom_prompt_block, filled_system_prompt, chat_histories,
                   user_input, enable_reflection, bot_reply, reflection,
                   llm_calls>>

\* lines 243-247: chat_with_fyu has returned; the script appends the
\* response to the transcript, shows it and ends.
ShowResponse ==
    /\ pc = "returned"
    /\ session_state' =
           [session_state EXCEPT
               !.chat_history =
                   Append(@, [role |-> "assistant", content |-> final_response])]
    /\ NoCall
    /\ pc' = "idle"
    /\ UNCHANGED <<readings, custom_prompt, current_date, custom_prompt_block,
                   filled_system_prompt, chat_histories, user_input>>

\* The state before the first run of the script.
NoRun ==
    /\ session_state = [session_id |-> "", chat_history |-> <<>>]
    /\ pc = "idle"
    /\ custom_prompt = ""
    /\ current_date = ""
    /\ custom_prompt_block = ""
    /\ filled_system_prompt = ""
    /\ chat_histories = EmptyStore
    /\ user_input = ""
    /\ enable_reflection = FALSE
    /\ bot_reply = ""
    /\ reflection = ""
    /\ final_response = Unset
    /\ error = ""
    /\ llm_calls = 0

Init == readings \in ChatReadings /\ NoRun

Next ==
    \/ Rerun
    \/ Submit
    \/ FirstCallReturns
    \/ FirstCallFails
    \/ ReflectionReturns
    \/ ReflectionFails
    \/ ShowResponse

\* The chat application.
Spec == Init /\ [][Next]_vars

\* The prompt composer alone: runs of the script without chat input, over
\* the composer's payloads and sidebar texts.
InitCompose == readings \in ComposerReadings /\ NoRun

Compose ==
    \E cp \in ComposerCustomPrompts, cd \in Dates, sid \in NewSessionIds :
        RunScript(cp, cd, sid)

NextCompose == Compose

SpecCompose == InitCompose /\ [][NextCompose]_vars

(***************************************************************************)
(* Definitions the properties below are stated with.                       *)
(***************************************************************************)
\* The session identifier of the browser session.
Sid == session_state.session_id

\* A turn with reflection enabled in which the reflection call has returned
\* its raw output, and chat_with_fyu has returned or raised.
ReflectionAnswered ==
    /\ enable_reflection
    /\ llm_calls = 2
    /\ pc \in {"returned", "raised"}
    /\ error # "ReflectionError"

\* The diagnostic note of line 216, written out.
NoteFor(raw) == "\n\n(brain) Reflection (unparsed):\n" \o raw

IsPrefix(a, b) == Len(a) <= Len(b) /\ SubSeq(b, 1, Len(a)) = a

\* Every turn of the transcript succeeded: user and assistant messages
\* alternate, in pairs.
AllTurnsSucceeded(h) ==
    /\ Len(h) % 2 = 0
    /\ \A i \in 1..Len(h) :
          h[i].role = (IF i % 2 = 1 THEN "user" ELSE "assistant")

\* The script has run and no turn is in flight.
Composed == pc = "idle" /\ Sid # ""

Placeholders == {"{readings}", "{current_date}", "{custom_prompt_block}"}

NoPlaceholderLeft(s) == \A t \in Placeholders : ~Contains(s, t)

BraceFree(s) == \A i \in 1..Len(s) : CharAt(s, i) \notin {"{", "}"}

\* Every brace of s is part of an occurrence of {readings} or {current_date}.
BracesOnlyInPlaceholders(s) ==
    \A i \in 1..Len(s) :
        CharAt(s, i) \in {"{", "}"} =>
            \E t \in {"{readings}", "{current_date}"} :
                \E k \in 1..i : StartsWithAt(s, t, k) /\ i < k + Len(t)

AllWhitespace(s) == \A i \in 1..Len(s) : CharAt(s, i) \in Whitespace

\* s from its first to its last character that is no whitespace.
Trimmed(s) ==
    LET keep == {i \in 1..Len(s) : CharAt(s, i) \notin Whitespace}
    IN  IF keep = {} THEN ""
        ELSE SubSeq(s, CHOOSE i \in keep : \A j \in keep : i <= j,
                       CHOOSE i \in keep : \A j \in keep : j <= i)

\* Text of the default persona template only.
PersonaHeading == "Fyu-chan System Prompt"

(***************************************************************************)
(* The properties.                                                         *)
(***************************************************************************)
\* C1: with reflection enabled, whatever raw text the reflection call
\* returns, chat_with_fyu returns (it does not raise) a str that is the
\* parsed final_response, the candidate reply, or the candidate reply with
\* the diagnostic note appended.
C1_ReflectionNeverBreaksTurn ==
    ReflectionAnswered =>
        /\ pc = "returned"
        /\ final_response.type = "str"
        /\ \/ final_response = PyStr(bot_reply)
           \/ final_response = PyStr(bot_reply \o NoteFor(reflection))
           \/ /\ JsonLoads(reflection).ok
              /\ JsonLoads(reflection).val.type = "dict"
              /\ final_response =
                     DictGet(JsonLoads(reflection).val, "final_response", Unset)

\* C2: with reflection enabled, when the raw output R of the reflection
\* call is not valid JSON, chat_with_fyu returns the candidate reply, the
\* marker and R, concatenated, and does not raise.
C2_UnparsedReflectionAppended ==
    (ReflectionAnswered /\ ~JsonLoads(reflection).ok) =>
        /\ pc = "returned"
        /\ final_response = PyStr(bot_reply \o NoteFor(reflection))

C2_Witness ==
    /\ pc = "returned"
    /\ enable_reflection
    /\ bot_reply = "hi"
    /\ reflection = "not json"
    /\ final_response =
           PyStr("hi\n\n(brain) Reflection (unparsed):\nnot json")

\* C3: with reflection enabled, when the reflection call returns a JSON
\* object whose final_response is the string X, chat_with_fyu returns X,
\* whatever the candidate reply and the adherence score.
C3_FinalResponseVerbatim ==
    \A score \in {"95", "90", "40"}, x \in Replies, pad \in {"", " ", "\n"} :
        (ReflectionAnswered /\ reflection = pad \o VerdictText(score, x) \o pad)
            => (pc = "returned" /\ final_response = PyStr(x))

C3_Witness ==
    /\ pc = "returned"
    /\ bot_reply = "hi"
    /\ reflection = VerdictText("95", "X")
    /\ final_response = PyStr("X")

\* C4: once n turns of a session have succeeded, the session's history in
\* chat_histories holds 2n messages, user_1, assistant_1, ..., user_n,
\* assistant_n, in turn order.
C4_HistoryHoldsEveryTurn ==
    (Composed /\ AllTurnsSucceeded(session_state.chat_history)) =>
        LET h == session_state.chat_history
            m == Messages(chat_histories, Sid)
        IN  /\ Len(m) = Len(h)
            /\ \A i \in 1..Len(h) :
                  IF i % 2 = 1
                  THEN m[i] = HumanMessage(h[i].content.s)
                  ELSE m[i].role = "ai"

\* C5: a session registered in chat_histories stays registered, and its
\* history only grows: the history of any earlier state is a prefix of the
\* history of any later state.
C5_HistoriesOnlyGrow ==
    [][\A id \in DOMAIN chat_histories :
          /\ id \in DOMAIN chat_histories'
          /\ IsPrefix(chat_histories[id], chat_histories'[id])]_vars

\* C6, as claimed: for every non-empty payload, date and override,
\* filled_system_prompt holds none of the three placeholder tokens.
C6_NoPlaceholderLeft ==
    (Composed /\ readings # "" /\ current_date # "" /\ custom_prompt_block # "")
        => NoPlaceholderLeft(filled_system_prompt)

\* C6, amended: for every non-empty payload without a brace, ISO date and
\* non-empty override whose braces all belong to {readings} or
\* {current_date} placeholders, filled_system_prompt holds none of the
\* three placeholder tokens.
C6_NoPlaceholderLeftOfPlainInputs ==
    (/\ Composed
     /\ readings # "" /\ current_date # "" /\ custom_prompt_block # ""
     /\ BraceFree(readings) /\ BraceFree(current_date)
     /\ BracesOnlyInPlaceholders(custom_prompt_block))
        => NoPlaceholderLeft(filled_system_prompt)

C6_Witness ==
    /\ Composed
    /\ readings = "Day 7: steady progress"
    /\ custom_prompt_block = "Use {readings} on {current_date}."
    /\ filled_system_prompt = "Use Day 7: steady progress on 2026-11-03."

\* C7: with an override that is empty once stripped, filled_system_prompt
\* is the default template with its placeholders substituted (the override
\* slot by the empty text); with any other override it is the stripped
\* override with its placeholders substituted, and holds no text of the
\* default template that the override or the payload did not bring.
C7_OnePromptNeverAMerge ==
    Composed =>
        IF AllWhitespace(custom_prompt)
        THEN filled_system_prompt =
                 FillSystemPrompt(fyu_chan_system_prompt, readings,
                                  current_date, "")
        ELSE /\ filled_system_prompt =
                    FillSystemPrompt(Trimmed(custom_prompt), readings,
                                     current_date, Trimmed(custom_prompt))
             /\ (~Contains(custom_prompt, PersonaHeading)
                 /\ ~Contains(readings, PersonaHeading))
                    => ~Contains(filled_system_prompt, PersonaHeading)

C7_Witness ==
    /\ Composed
    /\ custom_prompt = "Be brief."
    /\ filled_system_prompt = "Be brief."
    /\ ~Contains(filled_system_prompt, PersonaHeading)

\* C8: with reflection disabled, chat_with_fyu returns the reply of the
\* first completion call as it is, and that call is the only call of the
\* completion service in the turn.
C8_NoReflectionNoChange ==
    (pc = "returned" /\ ~enable_reflection) =>
        /\ final_response = PyStr(bot_reply)
        /\ bot_reply \in Replies
        /\ Messages(chat_histories, Sid)
               = <<HumanMessage(user_input), AIMessage(bot_reply)>>
        /\ llm_calls = 1
        /\ reflection = ""

C8_Witness ==
    /\ pc = "returned"
    /\ ~enable_reflection
    /\ bot_reply = "X"
    /\ final_response = PyStr("X")
    /\ llm_calls = 1

\* C9: when the first completion call fails, the failure leaves
\* chat_with_fyu: no second attempt and no reflection call is made, and the
\* failing call leaves every session's messages as they were, those of the
\* turn's session as line 164 left them.
C9_FirstCallFailureIsFatal ==
    [][(pc = "invoke" /\ pc' = "raised") =>
          /\ error' = "CompletionError"
          /\ llm_calls' = 1
          /\ bot_reply' = "" /\ reflection' = "" /\ final_response' = Unset
          /\ \A id \in SessionIds :
                /\ Messages(chat_histories', id) = Messages(chat_histories, id)
                /\ Messages(chat_histories', id) = <<>>]_vars

C9_Witness ==
    /\ pc = "raised"
    /\ error = "CompletionError"
    /\ llm_calls = 1
    /\ Sid \in DOMAIN chat_histories
    /\ chat_histories[Sid] = <<>>

\* C10: the reflection call is issued after the first call has returned
\* and the turn has been appended; from then to the end of the turn
\* chat_histories does not change, whatever the reflection's outcome, and
\* the stored assistant message is the candidate reply.
C10_ReflectionLeavesStoreAlone ==
    [][(pc = "reflect") =>
          /\ pc' \in {"returned", "raised"}
          /\ chat_histories' = chat_histories
          /\ bot_reply' = bot_reply
          /\ DOMAIN chat_histories' = {Sid}
          /\ chat_histories'[Sid]
                 = <<HumanMessage(user_input), AIMessage(bot_reply)>>]_vars

C10_Witness ==
    /\ pc = "returned"
    /\ bot_reply = "hi"
    /\ final_response = PyStr("X")
    /\ chat_histories[Sid] = <<HumanMessage(user_input), AIMessage("hi")>>

====
